---- MODULE Spec2Model ----
(***************************************************************************)
(* Model of lib/structures/Interaction.js: the Interaction record, its     *)
(* eight response operations and the client (REST collaborator) they       *)
(* delegate to.  The client is modelled as a mock that logs every call it  *)
(* receives and later settles the promise it returned.                     *)
(***************************************************************************)
EXTENDS Integers, Sequences, FiniteSets, TLC

VARIABLES inbound, records, heap, requests, calls

vars == <<inbound, records, heap, requests, calls>>

(* ---------------------------- bounds ----------------------------------- *)
MaxCalls == 2

\* the records of the session
Slots == DOMAIN records

(* ------------------- Constants.InteractionResponseType ------------------ *)
CHANNEL_MESSAGE_WITH_SOURCE == 4
DEFERRED_CHANNEL_MESSAGE_WITH_SOURCE == 5
DEFERRED_UPDATE_MESSAGE == 6
UPDATE_MESSAGE == 7
EPHEMERAL == 64

(* --------------------------- JS values ---------------------------------- *)
Undefined == [t |-> "undefined"]
Null == [t |-> "null"]
Str(s) == [t |-> "string", s |-> s]
Num(n) == [t |-> "number", n |-> n]
Obj(r) == [t |-> "object", ref |-> r]

\* typeof v === "object"  (true of null as well)
TypeofObject(v) == v.t \in {"object", "null"}

\* the truthiness used by  flags || 0
Truthy(v) ==
    CASE v.t = "undefined" -> FALSE
      [] v.t = "null" -> FALSE
      [] v.t = "number" -> v.n # 0
      [] v.t = "string" -> v.s # ""
      [] OTHER -> TRUE

\* a || b
Or(a, b) == IF Truthy(a) THEN a ELSE b

\* o.f = v  on a plain object
SetField(o, f, v) == [x \in (DOMAIN o) \cup {f} |-> IF x = f THEN v ELSE o[x]]

\* o.f  (undefined when the property is absent)
GetField(o, f) == IF f \in DOMAIN o THEN o[f] ELSE Undefined

\* the contents a value denotes: the heap cell of an object, the value itself otherwise
Deref(h, v) == IF v.t = "object" THEN h[v.ref] ELSE v

EmptyObject == [x \in {} |-> Undefined]

(* ------------------------- inbound payloads ----------------------------- *)
NoPayload == [t |-> "none"]
NoRecord == [t |-> "none"]

Raw(name) == [t |-> "raw", s |-> name]

PingPayload(s) ==
    [id |-> Str("id" \o ToString(s)), application_id |-> Str("app"),
     token |-> Str("tok" \o ToString(s)), type |-> Num(1), version |-> Num(1),
     channel_id |-> Undefined, guild_id |-> Undefined, member |-> Undefined,
     message |-> Undefined, data |-> Undefined]

SlashPayload(s) ==
    [PingPayload(s) EXCEPT !.type = Num(2), !.channel_id = Str("chan"),
                           !.guild_id = Str("guild"), !.member = Raw("member"),
                           !.data = Raw("command")]

ComponentPayload(s) ==
    [SlashPayload(s) EXCEPT !.type = Num(3), !.message = Raw("message"),
                            !.data = Raw("button")]

UnknownPayload(s) ==
    [PingPayload(s) EXCEPT !.type = Num(9), !.channel_id = Str("chan")]

Payloads(s) == {PingPayload(s), SlashPayload(s), ComponentPayload(s), UnknownPayload(s)}

(* ------------------------ Interaction constructor ----------------------- *)
\* new Member(data.member)
Member(raw) == [t |-> "Member", raw |-> raw]

\* new Message(data.message, this._client)
Message(raw) == [t |-> "Message", raw |-> raw]

\* a constructor that refuses unrecognized type discriminators
Interaction_Validated(data) ==
    IF data.type \in {Num(1), Num(2), Num(3)}
    THEN [id |-> data.id, applicationId |-> data.application_id,
          channelId |-> data.channel_id, data |-> data.data, guildId |-> data.guild_id,
          member |-> IF data.member # Undefined THEN Member(data.member) ELSE Undefined,
          message |-> IF data.message # Undefined THEN Message(data.message) ELSE Undefined,
          token |-> data.token, type |-> data.type, version |-> data.version]
    ELSE NoRecord

Interaction(data) ==
    [id |-> data.id,
     applicationId |-> data.application_id,
     channelId |-> IF data.channel_id # Undefined THEN data.channel_id ELSE Undefined,
     data |-> IF data.data # Undefined THEN data.data ELSE Undefined,
     guildId |-> IF data.guild_id # Undefined THEN data.guild_id ELSE Undefined,
     member |-> IF data.member # Undefined THEN Member(data.member) ELSE Undefined,
     message |-> IF data.message # Undefined THEN Message(data.message) ELSE Undefined,
     token |-> IF data.token # Undefined THEN data.token ELSE Undefined,
     type |-> data.type,
     version |-> data.version]

(* ------------------- the client (REST collaborator) --------------------- *)
\* A call of a client method: the mock logs it and returns a pending promise.
ClientCall(h, method, args, body) ==
    [heap |-> h,
     sent |-> <<[method |-> method, args |-> args, payload |-> Deref(h, body),
                 status |-> "pending"]>>,
     returns |-> [kind |-> "client", req |-> Len(requests) + 1]]

createInteractionResponse(h, id, token, options) ==
    ClientCall(h, "createInteractionResponse", <<id, token, options>>, options)

executeWebhook(h, applicationId, token, options) ==
    ClientCall(h, "executeWebhook", <<applicationId, token, options>>, options)

deleteWebhookMessage(h, applicationId, token, messageId) ==
    ClientCall(h, "deleteWebhookMessage", <<applicationId, token, messageId>>, Undefined)

editWebhookMessage(h, applicationId, token, messageId, options) ==
    ClientCall(h, "editWebhookMessage", <<applicationId, token, messageId, options>>, options)

(* ----------------------- response operations ---------------------------- *)
\* Each operation maps the record and the heap to the record and heap after
\* the call, the client calls made, and the promise returned to the caller.
Result(this, r) == [this |-> this, heap |-> r.heap, sent |-> r.sent, returns |-> r.returns]

InitialOps == {"acknowledge", "deferUpdate", "defer", "createMessage", "editParent"}

\* a promise rejected locally, with no client call behind it
Rejected(error) == [kind |-> "rejected", error |-> error]

\* an operation that fails locally: nothing sent, nothing changed
FailLocally(this, h, error) ==
    [this |-> this, heap |-> h, sent |-> <<>>, returns |-> Rejected(error)]

\* some initial-response operation was already called on this record
AlreadyCalled(this) ==
    \E k \in 1..Len(calls) :
        calls[k].op \in InitialOps /\ records[calls[k].slot].id = this.id

\* acknowledge addressed with the token of the session's first record, as if
\* the token were kept once for all records
acknowledge_SharedToken(this, h) ==
    LET first == CHOOSE s \in DOMAIN records : \A q \in DOMAIN records : s <= q
        h1 == Append(h, [type |-> Num(DEFERRED_UPDATE_MESSAGE)])
    IN  Result(this, createInteractionResponse(h1, this.id, records[first].token, Obj(Len(h1))))

\* acknowledge with the variant check its documentation speaks of
acknowledge_ComponentOnly(this, h) ==
    IF this.type # Num(3)
    THEN FailLocally(this, h, "InvalidForVariant")
    ELSE LET h1 == Append(h, [type |-> Num(DEFERRED_UPDATE_MESSAGE)])
         IN  Result(this, createInteractionResponse(h1, this.id, this.token, Obj(Len(h1))))

acknowledge(this, h) ==
    LET h1 == Append(h, [type |-> Num(DEFERRED_UPDATE_MESSAGE)])
    IN  Result(this, createInteractionResponse(h1, this.id, this.token, Obj(Len(h1))))

\* createFollowup dropping the token from the record once it has used it
createFollowup_ClearsToken(this, h, options) ==
    LET r == executeWebhook(h, this.applicationId, this.token, options)
    IN  Result([this EXCEPT !.token = Undefined], r)

\* createFollowup refused once an initial response of the record has failed
createFollowup_NeedsResponse(this, h, options) ==
    IF \E k \in 1..Len(calls) :
          /\ calls[k].op \in InitialOps
          /\ records[calls[k].slot].id = this.id
          /\ calls[k].returns.kind = "client"
          /\ requests[calls[k].returns.req].status = "TransportFailure"
    THEN FailLocally(this, h, "TransportFailure")
    ELSE Result(this, executeWebhook(h, this.applicationId, this.token, options))

createFollowup(this, h, options) ==
    Result(this, executeWebhook(h, this.applicationId, this.token, options))

\* stamping without the test for a missing argument: no options, fresh object
StampType_NoArgGuard(h, options, type) ==
    LET replace == options.t # "object"
        h1 == IF replace THEN Append(h, EmptyObject) ELSE h
        o1 == IF replace THEN Obj(Len(h1)) ELSE options
    IN  [heap |-> [h1 EXCEPT ![o1.ref] = SetField(@, "type", Num(type))],
         options |-> o1]

\* stamping a copy of the options instead of the caller's object
StampType_Copy(h, options, type) ==
    IF options # Undefined
    THEN LET h1 == Append(h, IF options.t = "object" THEN h[options.ref] ELSE EmptyObject)
         IN  [heap |-> [h1 EXCEPT ![Len(h1)] = SetField(@, "type", Num(type))],
              options |-> Obj(Len(h1))]
    ELSE [heap |-> h, options |-> options]

\* the shared body of createMessage and editParent: stamp the response type
StampType(h, options, type) ==
    IF options # Undefined
    THEN LET replace == (~TypeofObject(options)) \/ options = Null
             h1 == IF replace THEN Append(h, EmptyObject) ELSE h
             o1 == IF replace THEN Obj(Len(h1)) ELSE options
         IN  [heap |-> [h1 EXCEPT ![o1.ref] = SetField(@, "type", Num(type))],
              options |-> o1]
    ELSE [heap |-> h, options |-> options]

\* createMessage that stamps the type only when the caller gave none
createMessage_KeepsCallerType(this, h, options) ==
    LET given == options.t = "object" /\ "type" \in DOMAIN h[options.ref]
        st == IF given THEN [heap |-> h, options |-> options]
              ELSE StampType(h, options, CHANNEL_MESSAGE_WITH_SOURCE)
    IN  Result(this, createInteractionResponse(st.heap, this.id, this.token, st.options))

\* createMessage as a one-shot state machine would have it
createMessage_OneShot(this, h, options) ==
    IF AlreadyCalled(this)
    THEN FailLocally(this, h, "AlreadyResponded")
    ELSE LET st == StampType(h, options, CHANNEL_MESSAGE_WITH_SOURCE)
         IN  Result(this, createInteractionResponse(st.heap, this.id, this.token, st.options))

createMessage(this, h, options) ==
    LET st == StampType(h, options, CHANNEL_MESSAGE_WITH_SOURCE)
    IN  Result(this, createInteractionResponse(st.heap, this.id, this.token, st.options))

\* defer passing flags on as given, without the  || 0  default
defer_RawFlags(this, h, flags) ==
    LET h1 == Append(h, [type |-> Num(DEFERRED_CHANNEL_MESSAGE_WITH_SOURCE),
                         flags |-> flags])
    IN  Result(this, createInteractionResponse(h1, this.id, this.token, Obj(Len(h1))))

\* defer as a one-shot state machine would have it: a second initial response
\* is refused before the client is called
defer_OneShot(this, h, flags) ==
    IF AlreadyCalled(this)
    THEN FailLocally(this, h, "AlreadyResponded")
    ELSE LET h1 == Append(h, [type |-> Num(DEFERRED_CHANNEL_MESSAGE_WITH_SOURCE),
                              flags |-> Or(flags, Num(0))])
         IN  Result(this, createInteractionResponse(h1, this.id, this.token, Obj(Len(h1))))

defer(this, h, flags) ==
    LET h1 == Append(h, [type |-> Num(DEFERRED_CHANNEL_MESSAGE_WITH_SOURCE),
                         flags |-> Or(flags, Num(0))])
    IN  Result(this, createInteractionResponse(h1, this.id, this.token, Obj(Len(h1))))

\* deferUpdate sending the deferred-message type of defer
deferUpdate_AsDefer(this, h) ==
    LET h1 == Append(h, [type |-> Num(DEFERRED_CHANNEL_MESSAGE_WITH_SOURCE)])
    IN  Result(this, createInteractionResponse(h1, this.id, this.token, Obj(Len(h1))))

\* deferUpdate as a one-shot state machine would have it
deferUpdate_OneShot(this, h) ==
    IF AlreadyCalled(this)
    THEN FailLocally(this, h, "AlreadyResponded")
    ELSE LET h1 == Append(h, [type |-> Num(DEFERRED_UPDATE_MESSAGE)])
         IN  Result(this, createInteractionResponse(h1, this.id, this.token, Obj(Len(h1))))

deferUpdate(this, h) ==
    LET h1 == Append(h, [type |-> Num(DEFERRED_UPDATE_MESSAGE)])
    IN  Result(this, createInteractionResponse(h1, this.id, this.token, Obj(Len(h1))))

\* delete re-sending its request
delete_SendsTwice(this, h, messageId) ==
    LET r == deleteWebhookMessage(h, this.applicationId, this.token, messageId)
    IN  Result(this, [r EXCEPT !.sent = r.sent \o r.sent])

\* delete refused until an initial response has been sent
delete_AfterResponseOnly(this, h, messageId) ==
    IF AlreadyCalled(this)
    THEN Result(this, deleteWebhookMessage(h, this.applicationId, this.token, messageId))
    ELSE FailLocally(this, h, "Unacknowledged")

delete(this, h, messageId) ==
    Result(this, deleteWebhookMessage(h, this.applicationId, this.token, messageId))

\* edit addressed with the interaction id instead of the application id
edit_ById(this, h, messageId, options) ==
    Result(this, editWebhookMessage(h, this.id, this.token, messageId, options))

edit(this, h, messageId, options) ==
    Result(this, editWebhookMessage(h, this.applicationId, this.token, messageId, options))

\* editParent stamping the type of createMessage
editParent_AsMessage(this, h, options) ==
    LET st == StampType(h, options, CHANNEL_MESSAGE_WITH_SOURCE)
    IN  Result(this, createInteractionResponse(st.heap, this.id, this.token, st.options))

editParent(this, h, options) ==
    LET st == StampType(h, options, UPDATE_MESSAGE)
    IN  Result(this, createInteractionResponse(st.heap, this.id, this.token, st.options))

(* ------------------------- caller-side inputs --------------------------- *)
\* two option objects the caller owns and may pass to any operation
CallerObjects == <<[content |-> Str("hi")],
                   [content |-> Str("x"), type |-> Num(1), flags |-> Num(EPHEMERAL)]>>

CallerRefs == {Obj(r) : r \in 1..Len(CallerObjects)}

\* arguments tried for createMessage / editParent
OptionArgs == CallerRefs \cup {Undefined, Null, Str("hi")}

\* arguments tried for createFollowup / edit
WebhookArgs == CallerRefs

FlagArgs == {Undefined, Num(EPHEMERAL)}

MessageIds == {Str("@original"), Str("m1")}

\* (messageId, options) pairs tried for edit
EditArgs == {<<Str("@original"), Obj(1)>>, <<Str("m1"), Obj(2)>>}

\* how the client may settle a request: token expiry is reported for the
\* token-as-credential (webhook) calls only
Outcomes(method) ==
    IF method = "createInteractionResponse"
    THEN {"resolved", "TransportFailure"}
    ELSE {"resolved", "TransportFailure", "TokenExpired"}

(* ------------------------------ actions --------------------------------- *)
Init ==
    /\ inbound = [s \in {1} |-> NoPayload]
    /\ records = [s \in {1} |-> NoRecord]
    /\ heap = CallerObjects
    /\ requests = <<>>
    /\ calls = <<>>

\* the session receives an event and constructs its record
Construct(s, data) ==
    /\ records[s] = NoRecord
    /\ \A q \in Slots : q < s => records[q] # NoRecord
    /\ inbound' = [inbound EXCEPT ![s] = data]
    /\ records' = [records EXCEPT ![s] = Interaction(data)]
    /\ UNCHANGED <<heap, requests, calls>>

\* what the promise returned by call i has settled to ("pending" until then)
Outcome(i) ==
    IF calls[i].returns.kind = "client"
    THEN requests[calls[i].returns.req].status
    ELSE calls[i].returns.error

\* the caller invokes operation op on the record in slot s
Invoke(s, op, args, res) ==
    /\ records[s] # NoRecord
    /\ Len(calls) < MaxCalls
    /\ records' = [records EXCEPT ![s] = res.this]
    /\ heap' = res.heap
    /\ requests' = requests \o res.sent
    /\ calls' = Append(calls, [op |-> op, slot |-> s, args |-> args, returns |-> res.returns])
    /\ UNCHANGED inbound

Acknowledge(s) == Invoke(s, "acknowledge", <<>>, acknowledge(records[s], heap))

CreateFollowup(s, options) ==
    Invoke(s, "createFollowup", <<options>>, createFollowup(records[s], heap, options))

CreateMessage(s, options) ==
    Invoke(s, "createMessage", <<options>>, createMessage(records[s], heap, options))

Defer(s, flags) == Invoke(s, "defer", <<flags>>, defer(records[s], heap, flags))

DeferUpdate(s) == Invoke(s, "deferUpdate", <<>>, deferUpdate(records[s], heap))

Delete(s, messageId) ==
    Invoke(s, "delete", <<messageId>>, delete(records[s], heap, messageId))

Edit(s, messageId, options) ==
    Invoke(s, "edit", <<messageId, options>>, edit(records[s], heap, messageId, options))

EditParent(s, options) ==
    Invoke(s, "editParent", <<options>>, editParent(records[s], heap, options))

\* the client settles the promise of request j
Complete(j, outcome) ==
    /\ requests[j].status = "pending"
    /\ requests' = [requests EXCEPT ![j].status = outcome]
    /\ UNCHANGED <<inbound, records, heap, calls>>

Next ==
    \/ \E s \in Slots : \E data \in Payloads(s) : Construct(s, data)
    \/ \E s \in Slots : Acknowledge(s)
    \/ \E s \in Slots : \E options \in WebhookArgs : CreateFollowup(s, options)
    \/ \E s \in Slots : \E options \in OptionArgs : CreateMessage(s, options)
    \/ \E s \in Slots : \E flags \in FlagArgs : Defer(s, flags)
    \/ \E s \in Slots : DeferUpdate(s)
    \/ \E s \in Slots : \E messageId \in MessageIds : Delete(s, messageId)
    \/ \E s \in Slots : \E a \in EditArgs : Edit(s, a[1], a[2])
    \/ \E s \in Slots : \E options \in OptionArgs : EditParent(s, options)
    \/ \E j \in 1..Len(requests) : \E outcome \in Outcomes(requests[j].method) : Complete(j, outcome)

Spec == Init /\ [][Next]_vars

(* ------------- two records sharing the one client ----------------------- *)
\* The session holds two records, a Message Component one and a Slash Command
\* one, both constructed, with the same client behind them.
InitShared ==
    /\ inbound = [s \in {1, 2} |-> IF s = 1 THEN ComponentPayload(s) ELSE SlashPayload(s)]
    /\ records = [s \in {1, 2} |->
                    Interaction(IF s = 1 THEN ComponentPayload(s) ELSE SlashPayload(s))]
    /\ heap = CallerObjects
    /\ requests = <<>>
    /\ calls = <<>>

\* arguments tried with two records
SharedMessageArgs == {Obj(1), Undefined}

NextShared ==
    \/ \E s \in Slots : Acknowledge(s)
    \/ \E s \in Slots : CreateFollowup(s, Obj(1))
    \/ \E s \in Slots : \E options \in SharedMessageArgs : CreateMessage(s, options)
    \/ \E s \in Slots : \E flags \in FlagArgs : Defer(s, flags)
    \/ \E s \in Slots : DeferUpdate(s)
    \/ \E s \in Slots : Delete(s, Str("@original"))
    \/ \E s \in Slots : \E a \in EditArgs : Edit(s, a[1], a[2])
    \/ \E s \in Slots : EditParent(s, Obj(2))
    \/ \E j \in 1..Len(requests) : \E outcome \in Outcomes(requests[j].method) : Complete(j, outcome)

SpecShared == InitShared /\ [][NextShared]_vars

(* ---------------------- vocabulary of the properties -------------------- *)
LastCall == calls[Len(calls)]

\* this step is one call of an operation
CallStep == Len(calls') = Len(calls) + 1

\* the request behind call i
RequestOf(i) == requests[calls[i].returns.req]

\* call i was handed to the client, as its own request, and the caller holds
\* the client's promise
Dispatched(i) ==
    /\ calls[i].returns.kind = "client"
    /\ calls[i].returns.req \in 1..Len(requests)
    /\ \A k \in 1..Len(calls) : (k # i /\ calls[k].returns.kind = "client")
                                   => calls[k].returns.req # calls[i].returns.req

\* call i went out as an initial response of its record
DispatchedAsInitialResponse(i) ==
    /\ Dispatched(i)
    /\ RequestOf(i).method = "createInteractionResponse"
    /\ RequestOf(i).args[1] = records[calls[i].slot].id
    /\ RequestOf(i).args[2] = records[calls[i].slot].token

InitialCalls(s) == {k \in 1..Len(calls) : calls[k].slot = s /\ calls[k].op \in InitialOps}

\* the outcomes, at this moment, of the initial-response calls made so far on slot s
InitialOutcomes(s) == {Outcome(k) : k \in InitialCalls(s)}

\* this step is an initial-response call on a record on which an earlier
\* initial-response call has, before the step, settled to outcome
InitialCallAfter(outcome) ==
    /\ CallStep
    /\ LastCall'.op \in InitialOps
    /\ outcome \in InitialOutcomes(LastCall'.slot)

\* the call made by this step went out as an initial response of its record
NewCallDispatchedAsInitialResponse ==
    \E n \in 1..(Len(calls) + 1) : n = Len(calls') /\ DispatchedAsInitialResponse(n)'

\* this step sends exactly one new request and leaves the earlier ones alone
SendsOne ==
    /\ Len(requests') = Len(requests) + 1
    /\ SubSeq(requests', 1, Len(requests)) = requests
    /\ requests'[Len(requests')].status = "pending"

(* ------------------------------- C1 ------------------------------------- *)
\* C1 (as claimed): once an initial-response operation has succeeded, every
\* later initial-response operation on the same record fails with
\* AlreadyResponded and hands no request to the client.
C1_Original ==
    [][InitialCallAfter("resolved")
          => (LastCall'.returns = Rejected("AlreadyResponded") /\ requests' = requests)]_vars

\* C1 (amended): the record keeps no response state; an initial-response
\* operation called after an earlier one has succeeded is handed to the client
\* all the same, as one more createInteractionResponse request for the
\* record's id and token, and the caller gets the client's promise.
C1_Amended ==
    [][InitialCallAfter("resolved")
          => (SendsOne /\ NewCallDispatchedAsInitialResponse)]_vars

\* two initial responses of one record were dispatched, the first has succeeded
C1_Witness ==
    \E i, j \in 1..Len(calls) :
        /\ i < j
        /\ calls[i].slot = calls[j].slot
        /\ calls[i].op \in InitialOps /\ calls[j].op \in InitialOps
        /\ Outcome(i) = "resolved"
        /\ DispatchedAsInitialResponse(i) /\ DispatchedAsInitialResponse(j)

(* ------------------------------- C2 ------------------------------------- *)
ComponentOnlyOps == {"acknowledge", "deferUpdate", "editParent"}

\* call i is a Message-Component-only operation on a Ping or Slash Command record
OnPingOrSlash(i) ==
    /\ calls[i].op \in ComponentOnlyOps
    /\ records[calls[i].slot].type \in {Num(1), Num(2)}

\* C2 (as claimed): on a Ping or Slash Command record acknowledge, deferUpdate
\* and editParent fail with InvalidForVariant, before any request is made.
C2_Original ==
    \A i \in 1..Len(calls) :
        OnPingOrSlash(i) => calls[i].returns = Rejected("InvalidForVariant")

\* C2 (amended): the operations make no variant check; on a Ping or Slash
\* Command record acknowledge, deferUpdate and editParent are handed to the
\* client as a createInteractionResponse request for the record's id and
\* token, exactly as on a Message Component record.
C2_Amended ==
    \A i \in 1..Len(calls) : OnPingOrSlash(i) => DispatchedAsInitialResponse(i)

\* acknowledge went out for a Ping record and editParent for a Slash Command record
C2_Witness ==
    /\ \E i \in 1..Len(calls) :
          /\ calls[i].op \in {"acknowledge", "deferUpdate"}
          /\ records[calls[i].slot].type \in {Num(1), Num(2)}
          /\ DispatchedAsInitialResponse(i)
    /\ \E i \in 1..Len(calls) :
          /\ calls[i].op = "editParent"
          /\ records[calls[i].slot].type \in {Num(1), Num(2)}
          /\ DispatchedAsInitialResponse(i)

(* ------------------------------- C3 ------------------------------------- *)
\* the initial-response requests of slot s that are in flight
InFlightInitial(s) ==
    {j \in 1..Len(requests) :
        /\ requests[j].method = "createInteractionResponse"
        /\ requests[j].args[1] = records[s].id
        /\ requests[j].status = "pending"}

\* C3 (as claimed): a second initial-response call made while the first is
\* pending is rejected locally, so no two initial-response requests of one
\* record are ever in flight together.
C3_Original == \A s \in Slots : Cardinality(InFlightInitial(s)) <= 1

\* C3 (amended): an initial-response call made while an earlier one of the
\* same record is still pending is not rejected; it is handed to the client as
\* one more request and the earlier request stays in flight beside it.
C3_Amended ==
    [][InitialCallAfter("pending")
          => /\ SendsOne
             /\ NewCallDispatchedAsInitialResponse
             /\ \A s \in Slots :
                   Cardinality(InFlightInitial(s)') >= Cardinality(InFlightInitial(s))
             /\ \E s \in Slots :
                   s = LastCall'.slot /\ Cardinality(InFlightInitial(s)') >= 2]_vars

\* two initial-response calls of one record, both requests in flight
C3_Witness ==
    \E i, j \in 1..Len(calls) :
        /\ i < j
        /\ calls[i].slot = calls[j].slot
        /\ calls[i].op \in InitialOps /\ calls[j].op \in InitialOps
        /\ DispatchedAsInitialResponse(i) /\ DispatchedAsInitialResponse(j)
        /\ Outcome(i) = "pending" /\ Outcome(j) = "pending"

(* ------------------------------- C4 ------------------------------------- *)
\* C4 (as claimed): after the request of an initial-response operation has
\* failed, a later initial-response operation on the record still fails with
\* AlreadyResponded and dispatches nothing.
C4_Original ==
    [][InitialCallAfter("TransportFailure")
          => (LastCall'.returns = Rejected("AlreadyResponded") /\ requests' = requests)]_vars

\* this step is a createFollowup call on a record one of whose
\* initial-response requests has, before the step, failed
FollowupCallAfterFailure ==
    /\ CallStep
    /\ LastCall'.op = "createFollowup"
    /\ "TransportFailure" \in InitialOutcomes(LastCall'.slot)

\* the call made by this step was handed to the client
NewCallDispatched ==
    \E n \in 1..(Len(calls) + 1) : n = Len(calls') /\ Dispatched(n)'

\* this step is the client failing a request
FailureStep ==
    \E j \in 1..Len(requests) :
        /\ requests[j].status = "pending"
        /\ Len(requests') = Len(requests)
        /\ requests'[j].status \in {"TransportFailure", "TokenExpired"}

\* C4 (amended): the failure of an initial-response request changes nothing
\* on the record (there is no response state to roll back or to keep); a later
\* initial-response operation is handed to the client again as a new request,
\* and createFollowup is dispatched as well.
C4_Amended ==
    [][/\ FailureStep => (records' = records /\ calls' = calls /\ heap' = heap)
       /\ InitialCallAfter("TransportFailure")
             => (SendsOne /\ NewCallDispatchedAsInitialResponse)
       /\ FollowupCallAfterFailure
             => /\ SendsOne
                /\ NewCallDispatched
                /\ requests'[Len(requests')].method = "executeWebhook"]_vars

\* an initial response has failed and a later initial response of the same
\* record was dispatched
C4_Witness ==
    \E i, j \in 1..Len(calls) :
        /\ i < j
        /\ calls[i].slot = calls[j].slot
        /\ calls[i].op \in InitialOps /\ calls[j].op \in InitialOps
        /\ Outcome(i) = "TransportFailure"
        /\ DispatchedAsInitialResponse(j)

(* ------------------------------- C5 ------------------------------------- *)
FollowupOps == {"createFollowup", "edit", "delete"}

\* the client method each follow-up operation delegates to
FollowupMethod(op) ==
    CASE op = "createFollowup" -> "executeWebhook"
      [] op = "edit" -> "editWebhookMessage"
      [] op = "delete" -> "deleteWebhookMessage"

\* C5: whatever initial responses were or were not sent before, and however
\* often they are called, createFollowup, edit and delete are handed to the
\* client (never refused locally) and change nothing on the record.
C5_Theorem ==
    [][(CallStep /\ LastCall'.op \in FollowupOps)
          => /\ SendsOne
             /\ NewCallDispatched
             /\ requests'[Len(requests')].method = FollowupMethod(LastCall'.op)
             /\ records' = records
             /\ \A s \in Slots : InitialCalls(s)' = InitialCalls(s)]_vars

\* two follow-up operations were dispatched on a record that has had no
\* initial response at all
C5_Witness ==
    /\ Len(calls) = 2
    /\ calls[1].slot = calls[2].slot
    /\ InitialCalls(calls[1].slot) = {}
    /\ calls[1].op = "createFollowup" /\ calls[2].op \in FollowupOps
    /\ Dispatched(1) /\ Dispatched(2)
    /\ RequestOf(1).method = "executeWebhook"

(* ------------------------------- C6 ------------------------------------- *)
\* this step is createMessage(options), options given, on a record that has
\* had no initial-response call yet
FirstCreateMessage ==
    /\ CallStep
    /\ LastCall'.op = "createMessage"
    /\ LastCall'.args[1] # Undefined
    /\ InitialCalls(LastCall'.slot) = {}

\* the caller's fields as they are before this step
GivenFields(options) == IF options.t = "object" THEN heap[options.ref] ELSE EmptyObject

StampingCalls(r) ==
    {k \in 1..Len(calls) : calls[k].op \in {"createMessage", "editParent"}
                              /\ calls[k].args = <<Obj(r)>>}

StampOf(k) ==
    IF calls[k].op = "createMessage"
    THEN Num(CHANNEL_MESSAGE_WITH_SOURCE)
    ELSE Num(UPDATE_MESSAGE)

Latest(S) == CHOOSE m \in S : \A x \in S : x <= m

\* the calls that handed caller object r to createFollowup or edit
ReusingCalls(r) ==
    {k \in 1..Len(calls) :
        /\ calls[k].op \in {"createFollowup", "edit"}
        /\ calls[k].args[Len(calls[k].args)] = Obj(r)}

\* C7 (as claimed): createMessage and editParent leave the caller's options
\* object as it was.
C7_Original == \A r \in 1..Len(CallerObjects) : heap[r] = CallerObjects[r]

\* C7 (amended): createMessage and editParent, given an object, set the type
\* field of that very object to 4 or 7 and change no other field of it; the
\* object keeps the stamped type, so a later createFollowup or edit call that
\* is handed the same object sends the stamped type.
C7_Amended ==
    \A r \in 1..Len(CallerObjects) :
        /\ DOMAIN heap[r] = (DOMAIN CallerObjects[r])
                               \cup (IF StampingCalls(r) = {} THEN {} ELSE {"type"})
        /\ \A f \in (DOMAIN CallerObjects[r]) \ {"type"} : heap[r][f] = CallerObjects[r][f]
        /\ GetField(heap[r], "type") =
              IF StampingCalls(r) = {}
              THEN GetField(CallerObjects[r], "type")
              ELSE StampOf(Latest(StampingCalls(r)))
        /\ \A k \in ReusingCalls(r) :
              LET earlier == {i \in StampingCalls(r) : i < k}
              IN  GetField(RequestOf(k).payload, "type") =
                     IF earlier = {}
                     THEN GetField(CallerObjects[r], "type")
                     ELSE StampOf(Latest(earlier))

\* the caller's untyped object went through createMessage and then through
\* createFollowup, which sent it with type 4
C7_Witness ==
    /\ Len(calls) = 2
    /\ "type" \notin DOMAIN CallerObjects[1]
    /\ calls[1].op = "createMessage" /\ calls[1].args = <<Obj(1)>>
    /\ calls[2].op = "createFollowup" /\ calls[2].args = <<Obj(1)>>
    /\ RequestOf(2).payload["type"] = Num(CHANNEL_MESSAGE_WITH_SOURCE)
    /\ heap[1]["type"] = Num(CHANNEL_MESSAGE_WITH_SOURCE)

(* ------------------------------- C8 ------------------------------------- *)
\* this step is defer(flags) on a record that has had no initial-response call yet
FirstDefer ==
    /\ CallStep
    /\ LastCall'.op = "defer"
    /\ InitialCalls(LastCall'.slot) = {}

RecognizedTypes == {Num(1), Num(2), Num(3)}

\* C9 (as claimed): from a payload whose type is not 1, 2 or 3 no record
\* comes into existence and no operation is dispatched for it.
C9_Original ==
    \A s \in Slots :
        (inbound[s] # NoPayload /\ inbound[s].type \notin RecognizedTypes)
           => /\ records[s] = NoRecord
              /\ \A i \in 1..Len(calls) : calls[i].slot # s

\* C9 (amended): the constructor validates nothing; from a payload of any
\* type, recognized or not, it builds a record that stores the type, id,
\* application id and token as given, and the operations called on that
\* record are handed to the client.
C9_Amended ==
    \A s \in Slots :
        inbound[s] # NoPayload
           => /\ records[s] # NoRecord
              /\ records[s].type = inbound[s].type
              /\ records[s].id = inbound[s].id
              /\ records[s].applicationId = inbound[s].application_id
              /\ records[s].token = inbound[s].token
              /\ \A i \in 1..Len(calls) : calls[i].slot = s => Dispatched(i)

\* a record was built from a payload of type 9 and an initial response was
\* dispatched for it
C9_Witness ==
    \E s \in Slots :
        /\ inbound[s] # NoPayload
        /\ inbound[s].type = Num(9)
        /\ records[s] # NoRecord
        /\ records[s].type = Num(9)
        /\ \E i \in 1..Len(calls) : calls[i].slot = s /\ DispatchedAsInitialResponse(i)

(* ------------------------------- C10 ------------------------------------ *)
\* C10: edit(messageId, options) hands the client the record's application id
\* and token and the messageId and options it was given, untouched, whatever
\* was called on the record before.
C10_Theorem ==
    [][(CallStep /\ LastCall'.op = "edit")
          => /\ SendsOne
             /\ NewCallDispatched
             /\ heap' = heap
             /\ LET sent == requests'[Len(requests')]
                    this == records[LastCall'.slot]
                IN  /\ sent.method = "editWebhookMessage"
                    /\ sent.args = <<this.applicationId, this.token,
                                     LastCall'.args[1], LastCall'.args[2]>>
                    /\ sent.payload = Deref(heap, LastCall'.args[2])]_vars

\* edit("@original", options) was the first call after construction and the
\* client received the application id, the token, "@original" and the options
C10_Witness ==
    /\ Len(calls) = 1
    /\ calls[1].op = "edit"
    /\ calls[1].args = <<Str("@original"), Obj(1)>>
    /\ Dispatched(1)
    /\ RequestOf(1).args = <<inbound[calls[1].slot].application_id,
                             inbound[calls[1].slot].token, Str("@original"), Obj(1)>>
    /\ RequestOf(1).payload = CallerObjects[1]

(* ------------------------------- C11 ------------------------------------ *)
\* the request a deferred update consists of: type 6 and nothing else
DeferredUpdateBody == [type |-> Num(DEFERRED_UPDATE_MESSAGE)]

\* C11: acknowledge() and deferUpdate() are equivalent. Run on the same
\* record in the same state they return the same promise, leave the same
\* record and heap and send the same single request, an initial response of
\* type 6 with no message data; and every such call in the log went out so.
C11_Theorem ==
    /\ \A s \in Slots :
          records[s] # NoRecord
             => LET a == acknowledge(records[s], heap)
                    d == deferUpdate(records[s], heap)
                IN  /\ a = d
                    /\ a.this = records[s]
                    /\ a.returns.kind = "client"
                    /\ Len(a.sent) = 1
                    /\ a.sent[1].method = "createInteractionResponse"
                    /\ a.sent[1].args[1] = records[s].id
                    /\ a.sent[1].args[2] = records[s].token
                    /\ a.sent[1].payload = DeferredUpdateBody
    /\ \A i \in 1..Len(calls) :
          calls[i].op \in {"acknowledge", "deferUpdate"}
             => (DispatchedAsInitialResponse(i) /\ RequestOf(i).payload = DeferredUpdateBody)

\* acknowledge and deferUpdate were both called on one record and the two
\* requests the client received have the same method, address and body
C11_Witness ==
    \E i, j \in 1..Len(calls) :
        /\ calls[i].op = "acknowledge" /\ calls[j].op = "deferUpdate"
        /\ calls[i].slot = calls[j].slot
        /\ Dispatched(i) /\ Dispatched(j)
        /\ RequestOf(i).method = RequestOf(j).method
        /\ RequestOf(i).args[1] = RequestOf(j).args[1]
        /\ RequestOf(i).args[2] = RequestOf(j).args[2]
        /\ RequestOf(i).payload = DeferredUpdateBody
        /\ RequestOf(j).payload = DeferredUpdateBody

(* ------------------------------- C12 ------------------------------------ *)
\* this step is editParent(options), options given, on a Message Component
\* record that has had no initial-response call yet
FirstEditParent ==
    /\ CallStep
    /\ LastCall'.op = "editParent"
    /\ LastCall'.args[1] # Undefined
    /\ records[LastCall'.slot].type = Num(3)
    /\ InitialCalls(LastCall'.slot) = {}

\* the request sent by this step has the given type and otherwise the
\* caller's fields
SendsStamped(type) ==
    LET sent == requests'[Len(requests')].payload
        given == GivenFields(LastCall'.args[1])
    IN  /\ GetField(sent, "type") = Num(type)
        /\ DOMAIN sent = (DOMAIN given) \cup {"type"}
        /\ \A f \in (DOMAIN given) \ {"type"} : sent[f] = given[f]

Earliest(S) == CHOOSE m \in S : \A x \in S : m <= x

\* this step is an initial-response call on a record whose first
\* initial-response call was editParent
InitialCallAfterEditParent ==
    /\ CallStep
    /\ LastCall'.op \in InitialOps
    /\ InitialCalls(LastCall'.slot) # {}
    /\ calls[Earliest(InitialCalls(LastCall'.slot))].op = "editParent"

\* C12 (as claimed): editParent(options) on a fresh Message Component record
\* sends one initial-response request of type 7 and moves the record to state
\* Updated, the state in which further initial responses are refused.
C12_Original ==
    [][/\ FirstEditParent
             => (SendsOne /\ NewCallDispatchedAsInitialResponse /\ SendsStamped(UPDATE_MESSAGE))
       /\ InitialCallAfterEditParent
             => (LastCall'.returns = Rejected("AlreadyResponded") /\ requests' = requests)]_vars

\* C12 (amended): editParent(options) on a fresh Message Component record
\* sends exactly one initial-response request, of type 7 whatever type the
\* caller had put in options; the record itself is left as it was (no state
\* Updated is kept), and a later initial-response call on it is dispatched too.
C12_Amended ==
    [][/\ FirstEditParent
             => /\ SendsOne
                /\ NewCallDispatchedAsInitialResponse
                /\ SendsStamped(UPDATE_MESSAGE)
                /\ records' = records
       /\ InitialCallAfterEditParent
             => (SendsOne /\ NewCallDispatchedAsInitialResponse)]_vars

\* editParent, given an object the caller had typed 1, was the first call on
\* a Message Component record and went out with type 7; a second initial
\* response of the record was dispatched after it
C12_Witness ==
    /\ Len(calls) = 2
    /\ calls[1].op = "editParent"
    /\ calls[1].args[1] = Obj(2)
    /\ CallerObjects[2]["type"] = Num(1)
    /\ records[calls[1].slot].type = Num(3)
    /\ DispatchedAsInitialResponse(1)
    /\ RequestOf(1).payload["type"] = Num(UPDATE_MESSAGE)
    /\ RequestOf(1).payload["content"] = CallerObjects[2]["content"]
    /\ calls[2].slot = calls[1].slot
    /\ calls[2].op \in InitialOps
    /\ DispatchedAsInitialResponse(2)

(* ------------------------------- C13 ------------------------------------ *)
\* the response state each initial-response operation leads to
StateFor(op) ==
    CASE op = "defer" -> "Deferred"
      [] op = "createMessage" -> "Responded"
      [] op \in {"acknowledge", "deferUpdate"} -> "UpdateDeferred"
      [] op = "editParent" -> "Updated"

\* the initial-response calls of slot s that were handed to the client
SentInitialCalls(s) == {k \in InitialCalls(s) : Dispatched(k)}

\* The code stores no response state; what can be observed of one is the kind
\* of the initial response last handed to the client for the record.
ResponseState(s) ==
    IF SentInitialCalls(s) = {}
    THEN "Unacknowledged"
    ELSE StateFor(calls[Latest(SentInitialCalls(s))].op)

\* C13 (as claimed): the response state of a record changes at most once;
\* once it has left Unacknowledged no operation and no completion changes it.
C13_Original ==
    [][\A s \in Slots :
          ResponseState(s) # "Unacknowledged" => ResponseState(s)' = ResponseState(s)]_vars

\* C13 (amended): the response state starts at Unacknowledged; from any state
\* and on any variant defer leads to Deferred, createMessage to Responded,
\* acknowledge and deferUpdate to UpdateDeferred and editParent to Updated, so
\* the state can change again with every further initial response; follow-up
\* operations, construction and completions of requests never change it.
C13_Amended ==
    [][\A s \in Slots :
          IF CallStep /\ LastCall'.slot = s /\ LastCall'.op \in InitialOps
          THEN ResponseState(s)' = StateFor(LastCall'.op)
          ELSE /\ ResponseState(s)' = ResponseState(s)
               /\ (calls = <<>> => ResponseState(s) = "Unacknowledged")]_vars

\* a record went to Deferred by defer and on to Responded by createMessage
C13_Witness ==
    /\ Len(calls) = 2
    /\ calls[1].slot = calls[2].slot
    /\ calls[1].op = "defer" /\ Dispatched(1)
    /\ calls[2].op = "createMessage" /\ Dispatched(2)
    /\ ResponseState(calls[1].slot) = "Responded"

(* ------------------------------- C14 ------------------------------------ *)
\* the calls whose promise is the client's promise for request j
CallsBehind(j) ==
    {i \in 1..Len(calls) : calls[i].returns.kind = "client" /\ calls[i].returns.req = j}

\* C14: a call of an operation hands at most one request to the client and
\* the caller holds the client's own promise for it, so a failure of the
\* client (TransportFailure, TokenExpired) is the failure of the operation,
\* unmodified; no step other than a call sends anything, so nothing is sent
\* again after a failure, and no promise is rejected locally.
C14_Theorem ==
    [][/\ IF CallStep
          THEN /\ SubSeq(requests', 1, Len(requests)) = requests
               /\ LastCall'.returns.kind = "client"
               /\ LastCall'.returns.req = Len(requests')
               /\ Len(requests') = Len(requests) + 1
          ELSE Len(requests') = Len(requests) /\ calls' = calls
       /\ \A j \in 1..Len(requests) :
             requests[j].status # "pending"
                => (Len(requests') >= j /\ requests'[j] = requests[j])
       /\ FailureStep
             => \E j \in 1..Len(requests) :
                   /\ requests[j].status = "pending"
                   /\ requests'[j].status \in {"TransportFailure", "TokenExpired"}
                   /\ Cardinality(CallsBehind(j)) = 1
                   /\ \A i \in CallsBehind(j) : Outcome(i)' = requests'[j].status]_vars

\* a follow-up failed with TokenExpired and a delete with TransportFailure;
\* each call has its one request and the caller sees the client's error
C14_Witness ==
    /\ Len(calls) = 2
    /\ Len(requests) = 2
    /\ calls[1].op = "createFollowup" /\ Dispatched(1)
    /\ RequestOf(1).status = "TokenExpired" /\ Outcome(1) = "TokenExpired"
    /\ calls[2].op = "delete" /\ Dispatched(2)
    /\ RequestOf(2).status = "TransportFailure" /\ Outcome(2) = "TransportFailure"

(* ------------------------------- C15 ------------------------------------ *)
RecordFields ==
    {"id", "applicationId", "token", "type", "version",
     "guildId", "channelId", "member", "message", "data"}

\* C15: once constructed, a record keeps every one of its fields through all
\* operations and all completions of requests: it stays what the constructor
\* made of the payload.
C15_Theorem ==
    [][\A s \in Slots :
          records[s] # NoRecord
             => /\ DOMAIN records'[s] = RecordFields
                /\ \A f \in RecordFields : records'[s][f] = records[s][f]
                /\ records'[s] = Interaction(inbound[s])]_vars

\* a Message Component record, all optional fields set, has been through an
\* initial response that failed and a follow-up that resolved, and is still
\* as constructed
C15_Witness ==
    /\ Len(calls) = 2
    /\ calls[1].slot = calls[2].slot
    /\ calls[1].op \in InitialOps /\ Outcome(1) = "TransportFailure"
    /\ calls[2].op \in FollowupOps /\ Outcome(2) = "resolved"
    /\ inbound[calls[1].slot] = ComponentPayload(calls[1].slot)
    /\ records[calls[1].slot] = Interaction(inbound[calls[1].slot])
    /\ records[calls[1].slot].message # Undefined

(* ------------------------------- C16 ------------------------------------ *)
\* request j carries the credentials of the record call i was made on, and
\* of no other record
AddressedAs(i, j) ==
    LET this == records[calls[i].slot]
    IN  /\ requests[j].args[1] =
              (IF calls[i].op \in InitialOps THEN this.id ELSE this.applicationId)
        /\ requests[j].args[2] = this.token
        /\ \A q \in Slots \ {calls[i].slot} :
              /\ requests[j].args[2] # records[q].token
              /\ requests[j].args[1] # records[q].id

\* every request was sent by exactly one call and carries the credentials of
\* that call's record
AllAddressedRight ==
    /\ \A i \in 1..Len(calls) : Dispatched(i) /\ AddressedAs(i, calls[i].returns.req)
    /\ \A j \in 1..Len(requests) : Cardinality(CallsBehind(j)) = 1

\* the requests that carry the token of slot q
RequestsFor(q) == {j \in 1..Len(requests) : requests[j].args[2] = records[q].token}

\* C16: with two records on one client, every request is addressed with the
\* credentials of the record the operation was called on ((id, token) for an
\* initial response, (applicationId, token) for createFollowup, edit and
\* delete), and a call on one record leaves the other record, its response
\* state and the requests sent for it as they were.
C16_Theorem ==
    [][/\ AllAddressedRight'
       /\ CallStep
             => \A q \in Slots :
                   q # LastCall'.slot
                      => /\ records'[q] = records[q]
                         /\ ResponseState(q)' = ResponseState(q)
                         /\ RequestsFor(q)' = RequestsFor(q)
                         /\ \A j \in RequestsFor(q) : requests'[j] = requests[j]]_vars

\* an initial response went out for the first record and a follow-up for the
\* second, each with its own record's credentials
C16_Witness ==
    /\ Cardinality(Slots) = 2
    /\ records[1].token # records[2].token
    /\ Len(calls) = 2
    /\ calls[1].slot = 1 /\ calls[1].op \in InitialOps
    /\ calls[2].slot = 2 /\ calls[2].op \in FollowupOps
    /\ Dispatched(1) /\ Dispatched(2)
    /\ RequestOf(1).args[1] = records[1].id /\ RequestOf(1).args[2] = records[1].token
    /\ RequestOf(2).args[1] = records[2].applicationId
    /\ RequestOf(2).args[2] = records[2].token
    /\ ResponseState(1) # "Unacknowledged" /\ ResponseState(2) = "Unacknowledged"

(* ------------------------------- C17 ------------------------------------ *)
\* this step is a call of createMessage or editParent
StampingCallStep == CallStep /\ LastCall'.op \in {"createMessage", "editParent"}

\* C17: createMessage and editParent treat their argument in three ways.
\* Given an object they set its type (4 or 7) and send that very object; given
\* null or a value that is no object they send a fresh object holding the
\* type only; given no argument they call the client with no body at all.
C17_Theorem ==
    [][StampingCallStep
          => /\ SendsOne
             /\ NewCallDispatchedAsInitialResponse
             /\ LET o == LastCall'.args[1]
                    type == IF LastCall'.op = "createMessage"
                            THEN Num(CHANNEL_MESSAGE_WITH_SOURCE)
                            ELSE Num(UPDATE_MESSAGE)
                    sent == requests'[Len(requests')]
                IN  CASE o.t = "object" ->
                           /\ sent.args[3] = o
                           /\ Len(heap') = Len(heap)
                           /\ heap'[o.ref]["type"] = type
                           /\ DOMAIN heap'[o.ref] = (DOMAIN heap[o.ref]) \cup {"type"}
                           /\ \A f \in (DOMAIN heap[o.ref]) \ {"type"} :
                                 heap'[o.ref][f] = heap[o.ref][f]
                           /\ \A r \in (1..Len(heap)) \ {o.ref} : heap'[r] = heap[r]
                           /\ sent.payload = heap'[o.ref]
                       [] o = Undefined ->
                           /\ sent.args[3] = Undefined
                           /\ sent.payload = Undefined
                           /\ heap' = heap
                       [] OTHER ->
                           /\ sent.args[3] = Obj(Len(heap) + 1)
                           /\ Len(heap') = Len(heap) + 1
                           /\ SubSeq(heap', 1, Len(heap)) = heap
                           /\ DOMAIN sent.payload = {"type"}
                           /\ sent.payload["type"] = type]_vars

\* createMessage was given a string and sent a body holding type 4 only;
\* editParent was given nothing and called the client with no body
C17_Witness ==
    /\ Len(calls) = 2
    /\ calls[1].op = "createMessage" /\ calls[1].args = <<Str("hi")>>
    /\ Dispatched(1)
    /\ RequestOf(1).payload = [type |-> Num(CHANNEL_MESSAGE_WITH_SOURCE)]
    /\ calls[2].op = "editParent" /\ calls[2].args = <<Undefined>>
    /\ Dispatched(2)
    /\ RequestOf(2).args[3] = Undefined
    /\ RequestOf(2).payload = Undefined

====
